---- MODULE Spec2Model ----
(***************************************************************************)
(* Model of the string service of src/main.go: four operations on strings *)
(* (Uppercase, Count, Reverse, Truncate), one endpoint adapter and one     *)
(* HTTP binding (decode -> endpoint -> encode) per operation.              *)
(*                                                                         *)
(* A Go string is a sequence of bytes (0..255); a rune is a code point.    *)
(* The conversions between them ([]rune(s), string(r), the JSON decoder's  *)
(* and encoder's treatment of invalid UTF-8) are modelled byte by byte.    *)
(***************************************************************************)
EXTENDS Integers, Sequences, FiniteSets, TLC

(* ---------------------------- bounds ----------------------------------- *)

\* number of requests in flight at the same time (Spec, FairSpec)
NumRequests == 2
\* longest request string, in units of Units, of the single-request FnSpec
MaxLen == 3

Requests == 1..NumRequests

(* ------------------------- UTF-8 conversions --------------------------- *)

\* utf8.RuneError, U+FFFD: what an invalid byte decodes to
RuneError == 65533

Cont(x) == x \in 128..191

\* the range of the second byte that a three-byte lead accepts
Second3(b0) == IF b0 = 224 THEN 160..191 ELSE IF b0 = 237 THEN 128..159 ELSE 128..191

\* the range of the second byte that a four-byte lead accepts
Second4(b0) == IF b0 = 240 THEN 144..191 ELSE IF b0 = 244 THEN 128..143 ELSE 128..191

\* utf8.DecodeRuneInString: the first rune of the non-empty byte string b
\* and the number of bytes it takes; an invalid byte is RuneError, size 1
DecodeRune(b) ==
  LET n == Len(b)
      b0 == b[1]
  IN IF b0 < 128 THEN [r |-> b0, size |-> 1]
     ELSE IF b0 \in 194..223 /\ n >= 2 /\ Cont(b[2])
       THEN [r |-> (b0 - 192) * 64 + (b[2] - 128), size |-> 2]
     ELSE IF b0 \in 224..239 /\ n >= 3 /\ b[2] \in Second3(b0) /\ Cont(b[3])
       THEN [r |-> (b0 - 224) * 4096 + (b[2] - 128) * 64 + (b[3] - 128), size |-> 3]
     ELSE IF b0 \in 240..244 /\ n >= 4 /\ b[2] \in Second4(b0) /\ Cont(b[3]) /\ Cont(b[4])
       THEN [r |-> (b0 - 240) * 262144 + (b[2] - 128) * 4096
                   + (b[3] - 128) * 64 + (b[4] - 128), size |-> 4]
     ELSE [r |-> RuneError, size |-> 1]

\* utf8.EncodeRune: the bytes of rune r
EncodeRune(r) ==
  IF r < 0 \/ r > 1114111 \/ r \in 55296..57343
    THEN <<239, 191, 189>>
  ELSE IF r < 128 THEN <<r>>
  ELSE IF r < 2048 THEN <<192 + (r \div 64), 128 + (r % 64)>>
  ELSE IF r < 65536
    THEN <<224 + (r \div 4096), 128 + ((r \div 64) % 64), 128 + (r % 64)>>
  ELSE <<240 + (r \div 262144), 128 + ((r \div 4096) % 64),
         128 + ((r \div 64) % 64), 128 + (r % 64)>>

RECURSIVE Runes(_)
\* []rune(s): the runes of byte string s
Runes(s) ==
  IF s = <<>> THEN <<>>
  ELSE LET d == DecodeRune(s)
       IN <<d.r>> \o Runes(SubSeq(s, d.size + 1, Len(s)))

RECURSIVE Utf8(_)
\* the UTF-8 bytes of a sequence of runes
Utf8(r) == IF r = <<>> THEN <<>> ELSE EncodeRune(r[1]) \o Utf8(Tail(r))

\* a string built from runes by keeping the low byte of each (a faulty variant
\* of RunesToString)
RunesToStringLowByte(r) == [k \in 1..Len(r) |-> r[k] % 256]

\* string(r) of Reverse
RunesToString(r) == Utf8(r)

\* encoding/json on a string, in both directions: every invalid byte
\* becomes U+FFFD, valid text is unchanged
CoerceUTF8(s) == Utf8(Runes(s))

(* --------------------------- stringService ----------------------------- *)

\* the nil error
nil == "nil"

\* ErrEmpty = errors.New("empty string"); an error is modelled by its message
ErrEmpty == "empty string"

\* unicode.ToUpper that misses the first letter of the range (a faulty variant of
\* ToUpperRune)
ToUpperRuneOffByOne(r) ==
  IF r \in 98..122 THEN r - 32
  ELSE IF r = 181 THEN 924
  ELSE IF r \in 224..254 /\ r # 247 THEN r - 32
  ELSE IF r = 255 THEN 376
  ELSE r

\* unicode.ToUpper on the runes below U+0100 and on U+FFFD
ToUpperRune(r) ==
  IF r \in 97..122 THEN r - 32
  ELSE IF r = 181 THEN 924
  ELSE IF r \in 224..254 /\ r # 247 THEN r - 32
  ELSE IF r = 255 THEN 376
  ELSE r

\* strings.ToUpper: every rune of s mapped by unicode.ToUpper
ToUpper(s) ==
  LET r == Runes(s)
  IN Utf8([k \in 1..Len(r) |-> ToUpperRune(r[k])])

\* Uppercase without its test for the empty string (a faulty variant of Uppercase)
UppercaseUnchecked(s) == [v |-> ToUpper(s), err |-> nil, body |-> TRUE]

\* stringService.Uppercase.  body is a trace flag: TRUE when control passed
\* the test for the empty string
Uppercase(s) ==
  IF s = <<>> THEN [v |-> <<>>, err |-> ErrEmpty, body |-> FALSE]
  ELSE [v |-> ToUpper(s), err |-> nil, body |-> TRUE]

\* stringService.Count: len(s), the number of bytes of s
Count(s) == Len(s)

\* r[i], r[j] = r[j], r[i] on 0-based indices
Swap(r, i, j) == [r EXCEPT ![i + 1] = r[j + 1], ![j + 1] = r[i + 1]]

RECURSIVE ReverseLoopPastMiddle(_, _, _)
\* the loop of Reverse with the condition i <= len(r)/2 (a faulty variant of
\* ReverseLoop)
ReverseLoopPastMiddle(r, i, j) ==
  IF i <= Len(r) \div 2 /\ j >= 0 /\ i < Len(r)
    THEN ReverseLoopPastMiddle(Swap(r, i, j), i + 1, j - 1)
    ELSE r

RECURSIVE ReverseLoop(_, _, _)
\* for i, j := 0, len(r)-1; i < len(r)/2; i, j = i+1, j-1 { swap }
ReverseLoop(r, i, j) ==
  IF i < Len(r) \div 2
    THEN ReverseLoop(Swap(r, i, j), i + 1, j - 1)
    ELSE r

\* stringService.Reverse
Reverse(s) ==
  IF s = <<>> THEN [v |-> <<>>, err |-> ErrEmpty, body |-> FALSE]
  ELSE LET r == Runes(s)
       IN [v |-> RunesToString(ReverseLoop(r, 0, Len(r) - 1)),
           err |-> nil, body |-> TRUE]

\* s[:l] panics when l is outside 0..len(s)
SliceOutOfRange(s, l) == l < 0 \/ l > Len(s)

\* stringService.Truncate.  panic is TRUE when s[:l] raises the runtime's
\* "slice bounds out of range" and the call never returns
Truncate(s, l) ==
  IF s = <<>> THEN [v |-> <<>>, err |-> ErrEmpty, body |-> FALSE, panic |-> FALSE]
  ELSE IF SliceOutOfRange(s, l)
    THEN [v |-> <<>>, err |-> nil, body |-> TRUE, panic |-> TRUE]
  ELSE [v |-> SubSeq(s, 1, l), err |-> nil, body |-> TRUE, panic |-> FALSE]

(* ------------------------- endpoint adapters --------------------------- *)

\* err.Error() when err != nil, "" otherwise
ErrString(err) == IF err # nil THEN err ELSE ""

\* the endpoint of makeUppercaseEndpoint applied to a stringRequest
makeUppercaseEndpoint(request) ==
  LET r == Uppercase(request.S)
  IN [response |-> [V |-> r.v, Err |-> ErrString(r.err)],
      panic |-> FALSE,
      calls |-> {"endpoint", "Uppercase"} \cup (IF r.body THEN {"body"} ELSE {})]

\* the endpoint of makeCountEndpoint applied to a stringRequest
makeCountEndpoint(request) ==
  [response |-> [V |-> Count(request.S)],
   panic |-> FALSE,
   calls |-> {"endpoint", "Count", "body"}]

\* the endpoint of makeReverseEndpoint applied to a stringRequest
makeReverseEndpoint(request) ==
  LET r == Reverse(request.S)
  IN [response |-> [V |-> r.v, Err |-> ErrString(r.err)],
      panic |-> FALSE,
      calls |-> {"endpoint", "Reverse"} \cup (IF r.body THEN {"body"} ELSE {})]

\* the endpoint of makeTruncateEndpoint applied to a truncateRequest
makeTruncateEndpoint(request) ==
  LET r == Truncate(request.S, request.L)
  IN [response |-> [V |-> r.v, Err |-> ErrString(r.err)],
      panic |-> r.panic,
      calls |-> {"endpoint", "Truncate"} \cup (IF r.body THEN {"body"} ELSE {})]

(* --------------------------- HTTP binding ------------------------------ *)

Routes == {"/uppercase", "/count", "/reverse", "/truncate"}

\* A request body is one of
\*   [kind |-> "malformed"]           not JSON
\*   [kind |-> "mistyped"]            JSON whose s or l has the wrong type
\*   [kind |-> "json", s, l]          an object; s holds the raw bytes of the
\*                                    string literal, a missing field has the
\*                                    zero value
\* json.Decoder.Decode into a stringRequest
DecodeStringRequest(b) ==
  IF b.kind # "json" THEN [err |-> "decode", request |-> [S |-> <<>>]]
  ELSE [err |-> nil, request |-> [S |-> CoerceUTF8(b.s)]]

decodeUppercaseRequest(b) == DecodeStringRequest(b)

decodeCountRequest(b) == DecodeStringRequest(b)

decodeReverseRequest(b) == DecodeStringRequest(b)

\* json.Decoder.Decode into a truncateRequest
decodeTruncateRequest(b) ==
  IF b.kind # "json" THEN [err |-> "decode", request |-> [S |-> <<>>, L |-> 0]]
  ELSE [err |-> nil, request |-> [S |-> CoerceUTF8(b.s), L |-> b.l]]

\* the decoder that main gives the handler of route rt
DecoderOf(rt, b) ==
  IF rt = "/uppercase" THEN decodeUppercaseRequest(b)
  ELSE IF rt = "/count" THEN decodeCountRequest(b)
  ELSE IF rt = "/reverse" THEN decodeReverseRequest(b)
  ELSE decodeTruncateRequest(b)

\* the endpoint that main gives the handler of route rt
EndpointOf(rt, request) ==
  IF rt = "/uppercase" THEN makeUppercaseEndpoint(request)
  ELSE IF rt = "/count" THEN makeCountEndpoint(request)
  ELSE IF rt = "/reverse" THEN makeReverseEndpoint(request)
  ELSE makeTruncateEndpoint(request)

\* encodeResponse: the JSON object written for a response; err has
\* omitempty, a string value has its invalid bytes replaced by U+FFFD
encodeResponse(rt, response) ==
  IF rt = "/count" THEN [v |-> response.V]
  ELSE IF response.Err = "" THEN [v |-> CoerceUTF8(response.V)]
  ELSE [v |-> CoerceUTF8(response.V), err |-> response.Err]

StatusOK == 200
StatusBadRequest == 400
\* no status line was written: the connection was closed after a panic
NoStatus == 0

(* ------------------------------ inputs --------------------------------- *)

\* the pieces request strings are made of: 'a', 'Z', U+00E9 in two bytes,
\* and the byte 0xFF, which is not valid UTF-8
Units == {<<97>>, <<90>>, <<195, 169>>, <<255>>}

RECURSIVE RawStrings(_)
\* the byte strings made of at most n units
RawStrings(n) ==
  IF n = 0 THEN {<<>>}
  ELSE LET shorter == RawStrings(n - 1)
       IN shorter \cup {s \o u : s \in shorter, u \in Units}

\* the values of l tried: negative, in range, and past the longest string
\* (a unit is at most three bytes once decoded)
Ls == -1 .. 3 * MaxLen + 1

\* the strings and lengths of the requests handled concurrently
SampleStrings == {<<>>, <<97, 195, 169>>}

SampleLs == {-1, 1, 4}

\* the bodies sent to route rt with strings strs and lengths ls; l is not a
\* field of a stringRequest and is left at 0 on the other routes
Bodies(rt, kinds, strs, ls) ==
  {[kind |-> k] : k \in kinds}
    \cup {[kind |-> "json", s |-> s, l |-> l] :
            s \in strs, l \in (IF rt = "/truncate" THEN ls ELSE {0})}

(* ------------------------------- state --------------------------------- *)

VARIABLES
  pc,      \* pc[i]: where the handler of request i is
  route,   \* route[i]: the path request i was sent to
  body,    \* body[i]: the request body
  req,     \* req[i]: the decoded request
  resp,    \* resp[i]: the response the endpoint returned
  wire,    \* wire[i]: the JSON object written to the ResponseWriter
  status,  \* status[i]: the HTTP status written
  hist,    \* hist[i]: the values pc[i] has taken, in order
  calls    \* calls[i]: the functions run for request i

vars == <<pc, route, body, req, resp, wire, status, hist, calls>>

NoBody == [kind |-> "none"]
NoRequest == [S |-> <<>>]
NoResponse == [V |-> <<>>, Err |-> ""]
NoWire == [none |-> TRUE]

Terminal == {"sent", "decodeFailed", "panicked"}

Init ==
  /\ pc = [i \in Requests |-> "idle"]
  /\ route = [i \in Requests |-> "/uppercase"]
  /\ body = [i \in Requests |-> NoBody]
  /\ req = [i \in Requests |-> NoRequest]
  /\ resp = [i \in Requests |-> NoResponse]
  /\ wire = [i \in Requests |-> NoWire]
  /\ status = [i \in Requests |-> NoStatus]
  /\ hist = [i \in Requests |-> <<>>]
  /\ calls = [i \in Requests |-> {}]

\* the handler's position moves to p
Goto(i, p) ==
  /\ pc' = [pc EXCEPT ![i] = p]
  /\ hist' = [hist EXCEPT ![i] = Append(@, p)]

\* the server accepts request i: body b sent to route rt
Receive(i, rt, b) ==
  /\ pc[i] = "idle"
  /\ route' = [route EXCEPT ![i] = rt]
  /\ body' = [body EXCEPT ![i] = b]
  /\ Goto(i, "received")
  /\ UNCHANGED <<req, resp, wire, status, calls>>

\* the request variable of another handler on the same route, when there is
\* one (a faulty variant of Request)
RequestShared(i) ==
  LET others == {j \in Requests : j # i /\ route[j] = route[i]
                                  /\ pc[j] \in {"decoded", "processed", "encoded", "sent"}}
  IN IF others = {} THEN req[i] ELSE req[CHOOSE j \in others : TRUE]

\* the request argument of the endpoint called for request i
Request(i) == req[i]

\* the handler calls its decoder; an error ends the request with a
\* non-200 status and neither the endpoint nor the encoder runs
Decode(i) ==
  /\ pc[i] = "received"
  /\ LET d == DecoderOf(route[i], body[i])
     IN IF d.err # nil
          THEN /\ Goto(i, "decodeFailed")
               /\ status' = [status EXCEPT ![i] = StatusBadRequest]
               /\ wire' = [wire EXCEPT ![i] = [error |-> d.err]]
               /\ req' = req
          ELSE /\ Goto(i, "decoded")
               /\ req' = [req EXCEPT ![i] = d.request]
               /\ UNCHANGED <<status, wire>>
  /\ calls' = [calls EXCEPT ![i] = @ \cup {"decode"}]
  /\ UNCHANGED <<route, body, resp>>

\* the endpoint called for request i ends with outcome r.  A panic unwinds
\* the handler: net/http recovers it, logs it and closes the connection
\* without a response
Return(i, r) ==
  /\ calls' = [calls EXCEPT ![i] = @ \cup r.calls]
  /\ IF r.panic
       THEN /\ Goto(i, "panicked")
            /\ resp' = resp
       ELSE /\ Goto(i, "processed")
            /\ resp' = [resp EXCEPT ![i] = r.response]
  /\ UNCHANGED <<route, body, req, wire, status>>

\* uppercaseHandler calls its endpoint on the decoded request
UppercaseEndpoint(i) ==
  /\ pc[i] = "decoded"
  /\ route[i] = "/uppercase"
  /\ Return(i, makeUppercaseEndpoint(Request(i)))

\* countHandler calls its endpoint on the decoded request
CountEndpoint(i) ==
  /\ pc[i] = "decoded"
  /\ route[i] = "/count"
  /\ Return(i, makeCountEndpoint(Request(i)))

\* reverseHandler calls its endpoint on the decoded request
ReverseEndpoint(i) ==
  /\ pc[i] = "decoded"
  /\ route[i] = "/reverse"
  /\ Return(i, makeReverseEndpoint(Request(i)))

\* truncateHandler calls its endpoint on the decoded request
TruncateEndpoint(i) ==
  /\ pc[i] = "decoded"
  /\ route[i] = "/truncate"
  /\ Return(i, makeTruncateEndpoint(Request(i)))

\* the handler calls encodeResponse, whose first write sends status 200
Encode(i) ==
  /\ pc[i] = "processed"
  /\ wire' = [wire EXCEPT ![i] = encodeResponse(route[i], resp[i])]
  /\ status' = [status EXCEPT ![i] = StatusOK]
  /\ calls' = [calls EXCEPT ![i] = @ \cup {"encode"}]
  /\ Goto(i, "encoded")
  /\ UNCHANGED <<route, body, req, resp>>

\* the handler returns and the response is flushed to the client
Send(i) ==
  /\ pc[i] = "encoded"
  /\ Goto(i, "sent")
  /\ UNCHANGED <<route, body, req, resp, wire, status, calls>>

\* the steps of the handler of request i
Handle(i) ==
  \/ Decode(i)
  \/ UppercaseEndpoint(i)
  \/ CountEndpoint(i)
  \/ ReverseEndpoint(i)
  \/ TruncateEndpoint(i)
  \/ Encode(i)
  \/ Send(i)

\* a client sends one of the sample requests
ReceiveSample(i) ==
  \E rt \in Routes :
    \E b \in Bodies(rt, {"malformed"}, SampleStrings, SampleLs) : Receive(i, rt, b)

\* a client sends any request of the bounded input space
ReceiveAny(i) ==
  \E rt \in Routes :
    \E b \in Bodies(rt, {"malformed", "mistyped"}, RawStrings(MaxLen), Ls) :
      Receive(i, rt, b)

\* NumRequests requests handled concurrently, one goroutine each
Next == \E i \in Requests : ReceiveSample(i) \/ Handle(i)

Spec == Init /\ [][Next]_vars

\* every handler goroutine that can take a step is eventually scheduled
FairSpec == Spec /\ \A i \in Requests : WF_vars(Handle(i))

\* one request at a time, drawn from the whole bounded input space
FnNext == ReceiveAny(1) \/ Handle(1)

FnSpec == Init /\ [][FnNext]_vars

(* ------------------------------ properties ----------------------------- *)

\* request i has been at position p
Past(i, p) == \E k \in 1..Len(hist[i]) : hist[i][k] = p

\* the endpoint of request i has returned a response
Answered(i) == pc[i] \in {"processed", "encoded", "sent"}

\* the number of characters (code points) of s
RuneCount(s) == Len(Runes(s))

IsASCII(s) == \A k \in 1..Len(s) : s[k] < 128

HasLower(s) == \E k \in 1..Len(s) : s[k] \in 97..122

\* C1: a /truncate request whose s is not empty and whose l is negative or
\* greater than the length of s never reaches the indexing failure of
\* Truncate: its handler does not panic.
C1_TruncateOutOfRangeHandled ==
  \A i \in Requests :
    ( /\ route[i] = "/truncate"
      /\ Past(i, "decoded")
      /\ req[i].S # <<>>
      /\ (req[i].L < 0 \/ req[i].L > RuneCount(req[i].S)) )
    => pc[i] # "panicked"

\* C2: on /uppercase, /reverse and /truncate (any l) a request whose s is
\* the empty string is answered with v = "" and err = "empty string", in the
\* response and on the wire, and the body of the operation is not run.
C2_EmptyString ==
  \A i \in Requests :
    ( /\ route[i] \in {"/uppercase", "/reverse", "/truncate"}
      /\ Past(i, "decoded")
      /\ req[i].S = <<>> )
    => /\ pc[i] # "panicked"
       /\ "body" \notin calls[i]
       /\ Answered(i) => resp[i] = [V |-> <<>>, Err |-> "empty string"]
       /\ pc[i] \in {"encoded", "sent"}
            => wire[i] = [v |-> <<>>, err |-> "empty string"]

\* an empty s sent to /truncate with a negative l has been answered
C2_Witness ==
  \E i \in Requests :
    /\ route[i] = "/truncate"
    /\ pc[i] = "sent"
    /\ req[i].S = <<>>
    /\ req[i].L < 0
    /\ "Truncate" \in calls[i]

\* C3: once a request is finished, its status is 200 if and only if its
\* body decoded.
C3_StatusOKIffDecoded ==
  \A i \in Requests :
    pc[i] \in Terminal
      => (status[i] = 200 <=> DecoderOf(route[i], body[i]).err = nil)

\* C4: Count never fails and returns the number of characters (code points)
\* of s.
C4_CountIsRuneCount ==
  \A i \in Requests :
    (route[i] = "/count" /\ Past(i, "decoded"))
    => /\ pc[i] # "panicked"
       /\ Answered(i) => resp[i].V = RuneCount(req[i].S)

\* C5: for a non-empty s and 0 <= l <= the number of characters of s,
\* Truncate returns the first l characters of s and no error.
C5_TruncateIsCharPrefix ==
  \A i \in Requests :
    ( /\ route[i] = "/truncate"
      /\ Past(i, "decoded")
      /\ req[i].S # <<>>
      /\ req[i].L \in 0..RuneCount(req[i].S) )
    => /\ pc[i] # "panicked"
       /\ Answered(i)
            => resp[i] = [V |-> Utf8(SubSeq(Runes(req[i].S), 1, req[i].L)), Err |-> ""]

\* C6: for a non-empty s of n characters Reverse returns, with no error, a
\* string of n characters whose i-th character is the (n-1-i)-th of s.
C6_ReverseMirrors ==
  \A i \in Requests :
    (route[i] = "/reverse" /\ Answered(i) /\ req[i].S # <<>>)
    => LET in == Runes(req[i].S)
           out == Runes(resp[i].V)
           n == Len(in)
       IN /\ resp[i].Err = ""
          /\ Len(out) = n
          /\ \A k \in 0..(n - 1) : out[k + 1] = in[(n - 1 - k) + 1]

\* a string of three different characters, one of them stored in two bytes,
\* has been reversed
C6_Witness ==
  \E i \in Requests :
    /\ route[i] = "/reverse"
    /\ pc[i] = "sent"
    /\ Runes(req[i].S) = <<97, 233, 90>>
    /\ Runes(resp[i].V) = <<90, 233, 97>>

\* C7: for a non-empty s, Reverse applied to Reverse(s) succeeds and gives
\* s back.
C7_ReverseInvolution ==
  \A i \in Requests :
    (route[i] = "/reverse" /\ Answered(i) /\ req[i].S # <<>>)
    => /\ resp[i].Err = ""
       /\ Reverse(resp[i].V) = [v |-> req[i].S, err |-> nil, body |-> TRUE]

\* a string with a two-byte character, which is not its own reverse, has
\* been reversed
C7_Witness ==
  \E i \in Requests :
    /\ route[i] = "/reverse"
    /\ Answered(i)
    /\ RuneCount(req[i].S) >= 2
    /\ Len(req[i].S) > RuneCount(req[i].S)
    /\ resp[i].V # req[i].S

\* C8: for a non-empty ASCII s, Uppercase succeeds, its result has no
\* lowercase letter and the length of s, and uppercasing the result again
\* changes nothing.
C8_UppercaseASCII ==
  \A i \in Requests :
    (route[i] = "/uppercase" /\ Answered(i) /\ req[i].S # <<>> /\ IsASCII(req[i].S))
    => /\ resp[i].Err = ""
       /\ ~HasLower(resp[i].V)
       /\ Len(resp[i].V) = Len(req[i].S)
       /\ Uppercase(resp[i].V) = [v |-> resp[i].V, err |-> nil, body |-> TRUE]

\* an ASCII string with a lowercase and an uppercase letter has been
\* uppercased
C8_Witness ==
  \E i \in Requests :
    /\ route[i] = "/uppercase"
    /\ pc[i] = "sent"
    /\ req[i].S = <<97, 90, 97>>
    /\ resp[i].V = <<65, 90, 65>>

\* C9: at every point of every interleaving, what the handler of a request
\* holds (decoded request, response, bytes written, status, outcome) is what
\* its own route and body give when the request is handled alone.
C9_OwnRequestOnly ==
  \A i \in Requests :
    pc[i] # "idle" =>
      LET d == DecoderOf(route[i], body[i])
          e == EndpointOf(route[i], d.request)
      IN /\ pc[i] = "decodeFailed" <=> (Past(i, "decoded") = FALSE /\ pc[i] # "received")
         /\ pc[i] = "decodeFailed" => d.err # nil /\ status[i] = 400
         /\ Past(i, "decoded") => d.err = nil /\ req[i] = d.request
         /\ pc[i] = "panicked" => e.panic
         /\ Answered(i) => ~e.panic /\ resp[i] = e.response /\ calls[i] \subseteq e.calls \cup {"decode", "encode"}
         /\ pc[i] \in {"encoded", "sent"}
              => wire[i] = encodeResponse(route[i], e.response) /\ status[i] = 200

\* two requests with different bodies on the same route have both been
\* answered
C9_Witness ==
  \E i, j \in Requests :
    /\ i # j
    /\ route[i] = route[j]
    /\ pc[i] = "sent"
    /\ pc[j] = "sent"
    /\ req[i] # req[j]
    /\ wire[i] # wire[j]

\* the positions of a request that decodes, in order
Pipeline == <<"received", "decoded", "processed", "encoded", "sent">>

\* request i has gone through a prefix of Pipeline, or failed to decode
\* without its endpoint or operation being called
Linear(i) ==
  \/ /\ Len(hist[i]) <= Len(Pipeline)
     /\ hist[i] = SubSeq(Pipeline, 1, Len(hist[i]))
  \/ /\ hist[i] = <<"received", "decodeFailed">>
     /\ calls[i] = {"decode"}

\* C10: every request goes through received, decoded, processed, encoded,
\* sent in that order, or fails to decode without calling the endpoint; and
\* every received request eventually is sent or has failed to decode.
C10_Lifecycle ==
  /\ [](\A i \in Requests : Linear(i))
  /\ \A i \in Requests :
       (pc[i] = "received") ~> (pc[i] \in {"sent", "decodeFailed"})

====
